---- MODULE Spec2Model ----
(***************************************************************************)
(* Order pipeline of the serverless e-commerce backend: the validate-order *)
(* and process-payment Step Functions tasks                                *)
(* (dev1-backend-core/lambdas/*/app.py), the refund helper, and the        *)
(* executions that carry an order envelope through them.                   *)
(*                                                                         *)
(* Conventions.  A Python dict is a function whose DOMAIN is its key set.  *)
(* A JSON value is a tagged record: Null, Str(s), Num(n), List(l).         *)
(* Money is held in hundredths (cents); every float() of the source is a   *)
(* Dbl value, an IEEE-754 double held exactly (see Dbl below).             *)
(***************************************************************************)
EXTENDS Integers, Sequences, FiniteSets, TLC

VARIABLES exec, last, calls, issued, clock

vars == <<exec, last, calls, issued, clock>>

(***************************************************************************)
(* JSON values and dicts                                                   *)
(***************************************************************************)
Null == [t |-> "null"]
Str(s) == [t |-> "str", s |-> s]
Num(n) == [t |-> "num", n |-> n]
List(l) == [t |-> "list", l |-> l]

\* {**d, k: v}: every key of d is kept, k is set to v (a later key wins).
DictMerge(d, k, v) == [f \in DOMAIN d \cup {k} |-> IF f = k THEN v ELSE d[f]]

\* d.get(k, default)
DictGet(d, k, default) == IF k \in DOMAIN d THEN d[k] ELSE default

\* str(x) inside an f-string: None prints as "None".
PyStr(x) == IF x.t = "null" THEN "None" ELSE IF x.t = "num" THEN ToString(x.n) ELSE x.s

(***************************************************************************)
(* IEEE-754 doubles.  Dbl(c, e) is the double of value                     *)
(*        c/100 + e / (100 * 2^59)                                         *)
(* c is the decimal amount in cents, e the binary representation error.    *)
(* Every double in [2^j, 2^(j+1)) is a multiple of 2^(j-52), so after each *)
(* operation the exact result is rounded (to nearest, ties to even) to a   *)
(* multiple of Grid(j) = 2^(j+7) units of 2^-59.  Values are >= 2^-7 or 0  *)
(* or the exact difference of two nearby doubles.                          *)
(***************************************************************************)
Dbl(c, e) == [c |-> c, e |-> e]

RECURSIVE Pow2(_)
Pow2(k) == IF k = 0 THEN 1 ELSE 2 * Pow2(k - 1)

SquareMod(h, m) == CHOOSE r \in {(v * v) % m : v \in {h}} : TRUE

\* 2^k mod m, by repeated squaring
RECURSIVE Pow2Mod(_, _)
Pow2Mod(k, m) ==
    IF k = 0 THEN 1 % m
    ELSE IF k % 2 = 0 THEN SquareMod(Pow2Mod(k \div 2, m), m)
    ELSE (2 * Pow2Mod(k - 1, m)) % m

\* j + 7 for the binade [2^j, 2^(j+1)) that holds the positive value (c, e).
RECURSIVE BinadeFrom(_, _, _)
BinadeFrom(c, e, k) ==
    IF 100 * Pow2(k + 1) < 128 * c \/ (100 * Pow2(k + 1) = 128 * c /\ e >= 0)
    THEN CHOOSE r \in {BinadeFrom(c, e, n) : n \in {k + 1}} : TRUE
    ELSE k

Binade(c, e) == BinadeFrom(c, e, 0)

\* w: how far the exact value lies above the double below it, in units
\* of 2^-59 / 100; odd: that double's last mantissa bit is set.
RoundPick(c, e, G, w, odd) ==
    IF w = 0 THEN Dbl(c, e)
    ELSE IF w > 50 * G \/ (w = 50 * G /\ odd) THEN Dbl(c, e - w + 100 * G)
    ELSE Dbl(c, e - w)

RoundWithin(c, e, G, X) ==
    CHOOSE r \in {RoundPick(c, e, G, w, odd) :
                      w \in {X % (100 * G)}, odd \in {X >= 100 * G}} : TRUE

RoundOnGrid(c, e, k, G) ==
    CHOOSE r \in {RoundWithin(c, e, G, X) :
                      X \in {(G * ((c * Pow2Mod(59 - k, 200)) % 200) + e) % (200 * G)}} : TRUE

RoundInBinade(c, e, k) == CHOOSE r \in {RoundOnGrid(c, e, k, G) : G \in {Pow2(k)}} : TRUE

\* Round the exact positive value (c, e) to the nearest double, ties to even.
RoundNearestEven(c, e) == CHOOSE r \in {RoundInBinade(c, e, k) : k \in {Binade(c, e)}} : TRUE

IsPositive(x) == x.c > 0 \/ (x.c = 0 /\ x.e > 0)

FloatNeg(x) == Dbl(-x.c, -x.e)

\* abs(x)
FloatAbs(x) ==
    CHOOSE r \in {IF a.c < 0 \/ (a.c = 0 /\ a.e < 0) THEN FloatNeg(a) ELSE a :
                   a \in {x}} : TRUE

\* Round an exact result of either sign; the difference of two doubles a
\* cent apart or less is held exactly when it falls below 2^-7.
RoundSigned(c, e) ==
    IF c = 0 THEN Dbl(0, e)
    ELSE IF c > 0 THEN RoundNearestEven(c, e)
    ELSE FloatNeg(RoundNearestEven(-c, -e))

\* (the operands are taken as values, once, before the rounding uses them)
FloatRound(c, e) == CHOOSE r \in {RoundSigned(cv, ev) : cv \in {c}, ev \in {e}} : TRUE

\* float(n): the double nearest to the decimal amount of `cents` hundredths
\* (a JSON number, or a DynamoDB Decimal).
FloatOf(cents) == FloatRound(cents, 0)

\* A JSON number read back as a float: Num(n) is the decimal of n cents; a
\* number that carries e is the float Dbl(n, e) written out in full.
FloatOfNum(v) == IF "e" \in DOMAIN v THEN Dbl(v.n, v.e) ELSE FloatOf(v.n)

\* json.dumps of a float: the shortest decimal that reads back as the same
\* float, which is the amount in cents when the float is the nearest to it.
JsonNumber(x) ==
    IF x = FloatOf(x.c) THEN [t |-> "num", n |-> x.c]
    ELSE [t |-> "num", n |-> x.c, e |-> x.e]

FloatAdd(x, y) ==
    CHOOSE r \in {FloatRound(a.c + b.c, a.e + b.e) : a \in {x}, b \in {y}} : TRUE
FloatSub(x, y) ==
    CHOOSE r \in {FloatRound(a.c - b.c, a.e - b.e) : a \in {x}, b \in {y}} : TRUE
\* x * n for an int n
FloatMulInt(x, n) ==
    CHOOSE r \in {FloatRound(a.c * n, a.e * n) : a \in {x}} : TRUE

\* x > y
FloatGt(x, y) == \E a \in {x}, b \in {y} : IsPositive(Dbl(a.c - b.c, a.e - b.e))

ToleranceCents == 1

\* abs(a - b) > 0.01
ExceedsTolerance(a, b) == FloatGt(FloatAbs(FloatSub(a, b)), FloatOf(ToleranceCents))

(***************************************************************************)
(* The product catalog (DynamoDB PRODUCTS_TABLE): the seeded mouse "p2"    *)
(* (price 25, stock 50) and the handler docstring's "prod-1" (price 29.99, *)
(* stock not tracked).  Any other productId is not in the table.           *)
(***************************************************************************)
Catalog ==
    ("p2" :> [productId |-> "p2", price |-> 2500, stock |-> 50]) @@
    ("prod-1" :> [productId |-> "prod-1", price |-> 2999])

\* products_table.get_item(Key={'productId': pid}): {'Item': ...} or {}
GetItem(pid) == IF pid \in DOMAIN Catalog THEN [Item |-> Catalog[pid]] ELSE <<>>

(***************************************************************************)
(* validate_order_handler                                                  *)
(***************************************************************************)
RequiredFields == <<"orderId", "userId", "items", "totalAmount">>

RECURSIVE MissingFrom(_, _)
MissingFrom(order, i) ==
    IF i > Len(RequiredFields) THEN <<>>
    ELSE LET field == RequiredFields[i]
         IN  (IF field \notin DOMAIN order \/ order[field].t = "null"
              THEN <<[kind |-> "missing_field", field |-> field]>>
              ELSE <<>>) \o MissingFrom(order, i + 1)

validate_required_fields(order) ==
    MissingFrom(order, 1) \o
    (IF "items" \in DOMAIN order
     THEN IF order["items"].t # "list" THEN <<[kind |-> "items_not_array"]>>
          ELSE IF Len(order["items"].l) = 0 THEN <<[kind |-> "items_empty"]>>
          ELSE <<>>
     ELSE <<>>)

\* if 'stock' in product: ... available_stock < quantity
StockCheck(item, item_num, quantity, product) ==
    IF "stock" \in DOMAIN product /\ product.stock < quantity
    THEN <<[kind |-> "insufficient_stock", item |-> item_num,
            productId |-> item.productId.s,
            requested |-> quantity, available |-> product.stock]>>
    ELSE <<>>

\* abs(db_price - order_price) > 0.01
PriceMismatch(db_cents, order_cents) ==
    ExceedsTolerance(FloatOf(db_cents), FloatOf(order_cents))

\* if 'price' in item: ...; a price that float() rejects raises into the
\* loop's except clause.
PriceCheck(item, item_num, product) ==
    IF "price" \notin DOMAIN item THEN <<>>
    ELSE IF item.price.t # "num" THEN <<[kind |-> "lookup_error", item |-> item_num]>>
    ELSE IF PriceMismatch(DictGet(product, "price", 0), item.price.n)
    THEN <<[kind |-> "price_mismatch", item |-> item_num,
            productId |-> item.productId.s,
            expected |-> DictGet(product, "price", 0),
            received |-> item.price.n]>>
    ELSE <<>>

\* The checks the loop body makes after the product was fetched.
ProductChecks(item, item_num, quantity, product) ==
    StockCheck(item, item_num, quantity, product) \o PriceCheck(item, item_num, product)

\* if quantity <= 0: the error is appended and the loop body goes on.
QuantityCheck(item_num, quantity) ==
    IF quantity <= 0 THEN <<[kind |-> "quantity_not_positive", item |-> item_num]>>
    ELSE <<>>

\* The try block around get_item; fault: get_item raises.
LookupChecks(item, item_num, quantity, fault, response) ==
    IF fault THEN <<[kind |-> "lookup_error", item |-> item_num]>>
    ELSE IF "Item" \notin DOMAIN response
    THEN <<[kind |-> "not_found", item |-> item_num, productId |-> item.productId.s]>>
    ELSE ProductChecks(item, item_num, quantity, response.Item)

\* One pass of the loop body for the item at 1-based position item_num.
\* errors: what it appends; lookups: 1 if get_item was called.
CheckItem(item, item_num, fault) ==
    IF "productId" \notin DOMAIN item
    THEN [errors |-> <<[kind |-> "missing_productId", item |-> item_num]>>, lookups |-> 0]
    ELSE IF "quantity" \notin DOMAIN item
    THEN [errors |-> <<[kind |-> "missing_quantity", item |-> item_num]>>, lookups |-> 0]
    ELSE IF item.quantity.t # "num"
    THEN [errors |-> <<[kind |-> "invalid_quantity", item |-> item_num]>>, lookups |-> 0]
    ELSE [errors |-> QuantityCheck(item_num, item.quantity.n) \o
                     LookupChecks(item, item_num, item.quantity.n, fault,
                                  GetItem(item.productId.s)),
          lookups |-> 1]

JoinChecks(one, rest) ==
    [errors |-> one.errors \o rest.errors, lookups |-> one.lookups + rest.lookups]

RECURSIVE ItemsFrom(_, _, _)
\* The loop leaving at the first item that has an error.
ItemsFromFirstError(items, faults, idx) ==
    IF idx > Len(items) THEN [errors |-> <<>>, lookups |-> 0]
    ELSE IF CheckItem(items[idx], idx, idx \in faults).errors # <<>>
    THEN CheckItem(items[idx], idx, idx \in faults)
    ELSE JoinChecks(CheckItem(items[idx], idx, idx \in faults),
                    ItemsFrom(items, faults, idx + 1))

ItemsFrom(items, faults, idx) ==
    IF idx > Len(items) THEN [errors |-> <<>>, lookups |-> 0]
    ELSE CHOOSE r \in {JoinChecks(one, rest) :
                           one \in {CheckItem(items[idx], idx, idx \in faults)},
                           rest \in {ItemsFrom(items, faults, idx + 1)}} : TRUE

\* validate_items(items); faults: the positions whose catalog lookup raises.
validate_items(items, faults) == ItemsFrom(items, faults, 1)

Priced(item) == "price" \in DOMAIN item /\ "quantity" \in DOMAIN item

\* calculated_total after the items from position idx on were added to acc.
RECURSIVE SumFrom(_, _, _)
SumFrom(items, idx, acc) ==
    IF idx > Len(items) THEN acc
    ELSE IF Priced(items[idx])
    THEN SumFrom(items, idx + 1,
                 FloatAdd(acc, FloatMulInt(FloatOf(items[idx].price.n),
                                           items[idx].quantity.n)))
    ELSE SumFrom(items, idx + 1, acc)

\* float() or int() of the loop, or float() of totalAmount, raises
TotalRaises(order) ==
    \/ \E i \in 1..Len(order["items"].l) :
          /\ Priced(order["items"].l[i])
          /\ (order["items"].l[i].price.t # "num"
              \/ order["items"].l[i].quantity.t # "num")
    \/ DictGet(order, "totalAmount", Num(0)).t # "num"

\* A reconciliation that accepts every total.
TotalMismatchNever(calculated_total, order_total) == <<>>

\* abs(calculated_total - order_total) > 0.01
TotalMismatch(calculated_total, order_total) ==
    IF ExceedsTolerance(calculated_total, order_total)
    THEN <<[kind |-> "total_mismatch", expected |-> calculated_total.c,
            received |-> order_total.c]>>
    ELSE <<>>

validate_total_amount(order) ==
    IF TotalRaises(order) THEN <<[kind |-> "total_exception"]>>
    ELSE CHOOSE r \in {TotalMismatch(calculated_total, order_total) :
                           calculated_total \in {SumFrom(order["items"].l, 1, Dbl(0, 0))},
                           order_total \in {FloatOfNum(DictGet(order, "totalAmount", Num(0)))}} :
             TRUE

\* Step 3 run whatever step 2 found.
ValidationAfterItemsAll(event, items) ==
    [errors |-> items.errors \o validate_total_amount(event), lookups |-> items.lookups]

\* Step 3, run only if the list is still empty.
ValidationAfterItems(event, items) ==
    IF items.errors = <<>>
    THEN [errors |-> validate_total_amount(event), lookups |-> items.lookups]
    ELSE items

\* Step 2, run only if the list is still empty.
ValidationAfterRequired(event, faults, required) ==
    IF required = <<>>
    THEN CHOOSE r \in {ValidationAfterItems(event, items) :
                           items \in {validate_items(DictGet(event, "items", List(<<>>)).l,
                                                      faults)}} : TRUE
    ELSE [errors |-> required, lookups |-> 0]

\* The three steps of lambda_handler up to is_valid.
Validation(event, faults) ==
    CHOOSE r \in {ValidationAfterRequired(event, faults, required) :
                      required \in {validate_required_fields(event)}} : TRUE

\* A response built from the four order fields only.
ValidateResponseOrderOnly(event, context, v) ==
    DictMerge([k \in {"orderId", "userId", "items", "totalAmount"} \cap DOMAIN event |->
                  event[k]],
              "validationResult",
              [isValid |-> Len(v.errors) = 0, errors |-> v.errors,
               validatedAt |-> context.request_id,
               validatedBy |-> context.function_name])

\* response = {**event, 'validationResult': {...}}
ValidateResponse(event, context, v) ==
    DictMerge(event, "validationResult",
              [isValid |-> Len(v.errors) = 0, errors |-> v.errors,
               validatedAt |-> context.request_id,
               validatedBy |-> context.function_name])

\* The handler without its raise: the response is returned whatever is_valid.
ValidateOutcomeNoRaise(event, context, v) ==
    [kind |-> "returned", value |-> ValidateResponse(event, context, v),
     errors |-> v.errors, lookups |-> v.lookups]

\* What the invocation delivers: the response if is_valid, and a raised
\* ValueError carrying the joined errors otherwise.
ValidateOutcome(event, context, v) ==
    IF Len(v.errors) = 0
    THEN [kind |-> "returned", value |-> ValidateResponse(event, context, v),
          errors |-> v.errors, lookups |-> v.lookups]
    ELSE [kind |-> "raised", value |-> [type |-> "ValueError", errors |-> v.errors],
          errors |-> v.errors, lookups |-> v.lookups]

\* lambda_handler(event, context) of validate_order_handler, with the error
\* list and the number of catalog lookups of the invocation.
ValidateOrderHandler(event, context, faults) ==
    CHOOSE r \in {ValidateOutcome(event, context, v) : v \in {Validation(event, faults)}} :
        TRUE

(***************************************************************************)
(* process_payment_handler                                                 *)
(***************************************************************************)
\* hashlib.sha256(data).hexdigest()[:16]: the digest of a message is held as
\* the message itself, so two digests are equal exactly when the messages
\* are (a collision-free hash).
Sha256Hex16(data) == "#" \o data

\* generate_transaction_id(order_id, user_id); now: int(time.time() * 1000)
generate_transaction_id(order_id, user_id, now) ==
    "txn-" \o Sha256Hex16(PyStr(order_id) \o "-" \o PyStr(user_id) \o "-" \o ToString(now))

failure_reasons ==
    <<"Insufficient funds", "Card declined", "Payment gateway timeout",
      "Invalid card details", "Bank authorization failed">>

\* What the gateway draw can be: random.random() < 0.90, or the index
\* random.choice picks among failure_reasons.
GatewayDraws == {0} \cup (1..Len(failure_reasons))

\* The result with the reason of a failure left in the message only.
PaymentResultNoReason(transaction_id, amount, now, draw) ==
    [status |-> IF draw = 0 THEN "success" ELSE "failed",
     transactionId |-> transaction_id,
     processedAt |-> now, provider |-> "mock-payment-gateway",
     message |-> IF draw = 0 THEN "Payment processed successfully"
                 ELSE "Payment failed: " \o failure_reasons[draw],
     amount |-> amount, currency |-> "USD"]

PaymentResult(transaction_id, amount, now, draw) ==
    IF draw = 0
    THEN [status |-> "success", transactionId |-> transaction_id,
          processedAt |-> now, provider |-> "mock-payment-gateway",
          message |-> "Payment processed successfully",
          amount |-> amount, currency |-> "USD"]
    ELSE [status |-> "failed", transactionId |-> transaction_id,
          processedAt |-> now, provider |-> "mock-payment-gateway",
          message |-> "Payment failed: " \o failure_reasons[draw],
          failureReason |-> failure_reasons[draw],
          amount |-> amount, currency |-> "USD"]

\* process_payment(order_id, user_id, amount); draw = 0: the charge
\* succeeds; draw = i > 0: it fails with failure_reasons[i].
process_payment(order_id, user_id, amount, now, draw) ==
    PaymentResult(generate_transaction_id(order_id, user_id, now), amount, now, draw)

\* The handler without its raise: the response is returned whatever the status.
PaymentOutcomeNoRaise(event, total_amount, draw, payment_result) ==
    [kind |-> "returned",
     value |-> DictMerge(event, "paymentResult", payment_result),
     result |-> payment_result]

\* What the invocation delivers once process_payment has answered: the
\* response {**event, 'paymentResult': ...} on success, a raised ValueError
\* otherwise.  A successful charge of an amount that is not a number raises
\* in the :.2f format of its message.
PaymentOutcome(event, total_amount, draw, payment_result) ==
    IF draw = 0 /\ total_amount.t # "num"
    THEN [kind |-> "raised", value |-> [type |-> "TypeError"],
          result |-> payment_result]
    ELSE IF payment_result.status = "success"
    THEN [kind |-> "returned",
          value |-> DictMerge(event, "paymentResult", payment_result),
          result |-> payment_result]
    ELSE [kind |-> "raised",
          value |-> [type |-> "ValueError", message |-> payment_result.message],
          result |-> payment_result]

\* lambda_handler(event, context) of process_payment_handler
ProcessPaymentHandler(event, now, draw) ==
    PaymentOutcome(event, DictGet(event, "totalAmount", Num(0)), draw,
                   process_payment(DictGet(event, "orderId", Null),
                                   DictGet(event, "userId", Null),
                                   DictGet(event, "totalAmount", Num(0)), now, draw))

\* The refund id cut one character early: transaction_id[3:]
refund_payment_cut3(transaction_id, amount, now) ==
    [status |-> "refunded",
     refundId |-> "ref-" \o SubSeq(transaction_id, 4, Len(transaction_id)),
     originalTransactionId |-> transaction_id, refundedAt |-> now,
     amount |-> amount, message |-> "Payment refunded successfully"]

\* refund_payment(transaction_id, amount)
refund_payment(transaction_id, amount, now) ==
    [status |-> "refunded",
     refundId |-> "ref-" \o SubSeq(transaction_id, 5, Len(transaction_id)),
     originalTransactionId |-> transaction_id, refundedAt |-> now,
     amount |-> amount, message |-> "Payment refunded successfully"]

(***************************************************************************)
(* Input envelopes                                                         *)
(***************************************************************************)
(***************************************************************************)
(* order_entry_handler                                                     *)
(***************************************************************************)
\* response(status_code, {'error': ...})
EntryError(status_code, error) ==
    [kind |-> "response", statusCode |-> status_code, error |-> error]

\* not x, for a JSON value: None, "" and [] are falsy.
Falsy(x) ==
    \/ x.t = "null"
    \/ (x.t = "str" /\ x.s = "")
    \/ (x.t = "list" /\ Len(x.l) = 0)

RECURSIVE EntryTotalFrom(_, _, _, _)
\* One pass of the loop over the items; fault: get_item raises, which the
\* inner except swallows, so the item adds nothing to the total.
EntryItem(items, faults, idx, total_amount, product_id, quantity) ==
    IF Falsy(product_id) THEN EntryError(400, "Invalid item in order")
    ELSE IF quantity.t # "num" THEN EntryError(500, "Internal server error")
    ELSE IF quantity.n <= 0 THEN EntryError(400, "Invalid item in order")
    ELSE IF idx \in faults THEN EntryTotalFrom(items, faults, idx + 1, total_amount)
    ELSE IF "Item" \notin DOMAIN GetItem(product_id.s)
    THEN EntryError(404, "Product " \o product_id.s \o " not found")
    ELSE EntryTotalFrom(items, faults, idx + 1,
             FloatAdd(total_amount,
                      FloatMulInt(FloatOf(DictGet(GetItem(product_id.s).Item, "price", 0)),
                                  quantity.n)))

\* total_amount after the items from position idx on, or the error response
\* the loop returns.
EntryTotalFrom(items, faults, idx, total_amount) ==
    IF idx > Len(items) THEN [kind |-> "total", total |-> total_amount]
    ELSE EntryItem(items, faults, idx, total_amount,
                   DictGet(items[idx], "productId", Null),
                   DictGet(items[idx], "quantity", Num(0)))

\* The order object sent to the queue, with the float total as json.dumps
\* writes it.
EntryOrder(order_id, user_id, items, shipping_address, total_amount, now) ==
    [orderId |-> Str(order_id), userId |-> Str(user_id), items |-> items,
     shippingAddress |-> shipping_address, totalAmount |-> JsonNumber(total_amount),
     status |-> Str("PENDING"),
     createdAt |-> Str(ToString(now)), updatedAt |-> Str(ToString(now))]

EntryReply(order_id, user_id, items, shipping_address, now, sum) ==
    IF sum.kind = "response" THEN sum
    ELSE [kind |-> "created", statusCode |-> 201,
          order |-> EntryOrder(order_id, user_id, items, shipping_address, sum.total, now)]

\* lambda_handler of order_entry_handler on the parsed body
OrderEntryHandler(body, user_id, order_id, now, faults) ==
    IF Falsy(DictGet(body, "items", List(<<>>)))
    THEN EntryError(400, "Order must contain at least one item")
    ELSE IF "shippingAddress" \notin DOMAIN body \/ body["shippingAddress"].t = "null"
    THEN EntryError(400, "Shipping address is required")
    ELSE IF body["items"].t # "list" THEN EntryError(500, "Internal server error")
    ELSE EntryReply(order_id, user_id, body["items"], body["shippingAddress"], now,
                    EntryTotalFrom(body["items"].l, faults, 1, Dbl(0, 0)))

MaxItems == 2
MaxClock == 2
MaxAttempts == 2
NumExec == 2

Execs == 1..NumExec

Absent == [t |-> "absent"]

\* The dict of the given keys, without those whose value is Absent.
DictOf(keys, vals) ==
    [k \in {keys[i] : i \in {j \in 1..Len(keys) : vals[j].t # "absent"}} |->
        vals[CHOOSE i \in 1..Len(keys) : keys[i] = k]]

Item(productId, quantity, price) ==
    DictOf(<<"productId", "quantity", "price">>, <<productId, quantity, price>>)

Envelope(orderId, userId, items, totalAmount) ==
    DictOf(<<"orderId", "userId", "items", "totalAmount">>,
           <<orderId, userId, items, totalAmount>>)

ItemPool ==
    {Item(Str("p2"), Num(1), Num(p)) : p \in {2499, 2500, 2502}}
    \cup {Item(Str("p2"), Num(51), Num(p)) : p \in {2499, 2500, 2502}}
    \cup {Item(Str("prod-1"), Num(2), p) : p \in {Absent, Num(2998), Num(2999)}}
    \cup {Item(Str("p2"), Num(0), Num(2502)),
          Item(Str("p2"), Str("two"), Num(2500)),
          Item(Str("p9"), Num(1), Num(2500)),
          Item(Absent, Num(1), Absent),
          Item(Str("p2"), Absent, Num(2500))}

ItemLists == UNION {[1..n -> ItemPool] : n \in 1..MaxItems}

\* The decimal sum of price * quantity over the priced items, used only to
\* place the claimed totals of the inputs around it.
RECURSIVE DecimalSum(_, _)
DecimalSum(items, idx) ==
    IF idx > Len(items) THEN 0
    ELSE LET item == items[idx]
             here == IF "price" \in DOMAIN item /\ "quantity" \in DOMAIN item
                        /\ item.price.t = "num" /\ item.quantity.t = "num"
                     THEN item.price.n * item.quantity.n ELSE 0
         IN  here + DecimalSum(items, idx + 1)

TotalOffsets == {-1, 0, 1, 12}

GoodItems == <<Item(Str("prod-1"), Num(2), Num(2999))>>

\* Envelopes with every combination of absent, null and present fields.
StructEnvelopes ==
    {Envelope(o, u, i, t) :
        o \in {Absent, Null, Str("order-123")},
        u \in {Absent, Null, Str("user-456")},
        i \in {Absent, Null, Str("none"), List(<<>>), List(GoodItems)},
        t \in {Absent, Null, Num(5998)}}

\* Structurally complete envelopes over every item list.
ItemEnvelopes ==
    UNION {{Envelope(Str("order-123"), Str("user-456"), List(il),
                     Num(DecimalSum(il, 1) + d)) :
               d \in {x \in TotalOffsets : DecimalSum(il, 1) + x >= 0}} :
           il \in ItemLists}

\* An envelope as the order-entry handler queues it, and one that already
\* carries a validationResult (the event of the payment handler's own test).
CarriedEnvelopes ==
    LET base == Envelope(Str("order-123"), Str("user-456"), List(GoodItems), Num(5998))
    IN  {DictMerge(base, "status", Str("PENDING")),
         DictMerge(base, "validationResult", [isValid |-> TRUE, errors |-> <<>>])}

Envelopes == StructEnvelopes \cup ItemEnvelopes \cup CarriedEnvelopes

\* Two deliveries of one order and one of another, for parallel executions.
ParallelEnvelopes ==
    {Envelope(Str(o), Str("user-456"), List(GoodItems), Num(5998)) :
        o \in {"order-123", "order-124"}}

\* The context of the n-th validate invocation of execution e: every
\* invocation has a request id of its own.
Context(e, n) ==
    [request_id |-> "req-" \o ToString(e) \o "-" \o ToString(n),
     function_name |-> "validate-order"]

\* The positions of the items of an event (none when items is no list).
Positions(event) ==
    IF "items" \in DOMAIN event /\ event["items"].t = "list"
    THEN 1..Len(event["items"].l) ELSE {}

(***************************************************************************)
(* Executions.  Each carries one envelope through the stages:              *)
(* IDLE -> INTAKE -> {REJECTED | VALIDATED} -> {PAYMENT_FAILED | PAID}     *)
(*      -> COMPENSATED.  A stage that returns hands its response to the    *)
(* next one; a stage that raises ends the execution.                       *)
(***************************************************************************)
NoCalls == [validate |-> 0, payment |-> 0, refund |-> 0, lookups |-> 0]

Init ==
    /\ exec = [e \in Execs |-> [state |-> "IDLE", env |-> <<>>, intake |-> <<>>]]
    /\ last = [e \in Execs |-> [stage |-> "none"]]
    /\ calls = [e \in Execs |-> NoCalls]
    /\ issued = <<>>
    /\ clock = 0

\* An order envelope arrives and an execution starts on it.
Deliver(e, envelope) ==
    /\ exec[e].state = "IDLE"
    /\ exec' = [exec EXCEPT ![e] = [state |-> "INTAKE", env |-> envelope,
                                    intake |-> envelope]]
    /\ UNCHANGED <<last, calls, issued, clock>>

\* The execution goes on with the response of a stage that returned, and
\* ends with its envelope as it was when the stage raised.
AfterStage(e, out, next_ok, next_raised) ==
    IF out.kind = "returned"
    THEN [exec EXCEPT ![e].state = next_ok, ![e].env = out.value]
    ELSE [exec EXCEPT ![e].state = next_raised]

ApplyValidate(e, faults, out, next_ok, next_raised) ==
    /\ exec' = AfterStage(e, out, next_ok, next_raised)
    /\ last' = [last EXCEPT ![e] =
          [stage |-> "validate", event |-> exec[e].env, faults |-> faults,
           outcome |-> out]]
    /\ calls' = [calls EXCEPT ![e].validate = @ + 1, ![e].lookups = @ + out.lookups]
    /\ UNCHANGED <<issued, clock>>

\* One invocation of the validate handler on the execution's envelope.
InvokeValidate(e, next_ok, next_raised) ==
    \E faults \in SUBSET Positions(exec[e].env) :
        \E out \in {ValidateOrderHandler(exec[e].env,
                                         Context(e, calls[e].validate + 1), faults)} :
            ApplyValidate(e, faults, out, next_ok, next_raised)

ApplyPayment(e, out, next_ok, next_raised) ==
    /\ exec' = AfterStage(e, out, next_ok, next_raised)
    /\ last' = [last EXCEPT ![e] =
          [stage |-> "payment", event |-> exec[e].env, outcome |-> out]]
    /\ calls' = [calls EXCEPT ![e].payment = @ + 1]
    /\ issued' = Append(issued,
          [exec |-> e, attempt |-> calls[e].payment + 1, at |-> clock,
           orderId |-> DictGet(exec[e].env, "orderId", Null),
           userId |-> DictGet(exec[e].env, "userId", Null),
           transactionId |-> out.result.transactionId])
    /\ UNCHANGED clock

\* One invocation of the payment handler on the execution's envelope.
InvokePayment(e, next_ok, next_raised) ==
    \E draw \in GatewayDraws :
        \E out \in {ProcessPaymentHandler(exec[e].env, clock, draw)} :
            ApplyPayment(e, out, next_ok, next_raised)

Validate(e) ==
    /\ exec[e].state = "INTAKE"
    /\ InvokeValidate(e, "VALIDATED", "REJECTED")

Pay(e) ==
    /\ exec[e].state = "VALIDATED"
    /\ InvokePayment(e, "PAID", "PAYMENT_FAILED")

ApplyRefund(e, refund) ==
    /\ exec' = [exec EXCEPT ![e].state = "COMPENSATED",
                            ![e].env = DictMerge(@, "refundResult", refund)]
    /\ last' = [last EXCEPT ![e] =
          [stage |-> "refund", event |-> exec[e].env,
           outcome |-> [kind |-> "returned", value |-> refund]]]
    /\ calls' = [calls EXCEPT ![e].refund = @ + 1]
    /\ UNCHANGED <<issued, clock>>

\* A later stage failed after the payment: the charge is refunded.
Compensate(e) ==
    /\ exec[e].state = "PAID"
    /\ ApplyRefund(e, refund_payment(exec[e].env["paymentResult"].transactionId,
                                     exec[e].env["paymentResult"].amount, clock))

\* A millisecond passes.
Tick ==
    /\ clock < MaxClock
    /\ clock' = clock + 1
    /\ UNCHANGED <<exec, last, calls, issued>>

\* Crash recovery: the validate stage is invoked again on its own output.
RedeliverValidate(e) ==
    /\ exec[e].state = "VALIDATED"
    /\ calls[e].validate < MaxAttempts
    /\ InvokeValidate(e, "VALIDATED", "REJECTED")

\* Crash recovery: the payment stage is invoked again on its own output;
\* each invocation sleeps 200 ms before it reads the time.
RedeliverPayment(e) ==
    /\ exec[e].state = "PAID"
    /\ calls[e].payment < MaxAttempts
    /\ \A i \in 1..Len(issued) : issued[i].exec = e => issued[i].at < clock
    /\ InvokePayment(e, "PAID", "PAYMENT_FAILED")

\* The envelopes the pipeline is run on: every combination of absent, null
\* and present fields, and those that carry more than the order fields.
PipelineEnvelopes == StructEnvelopes \cup CarriedEnvelopes \cup ParallelEnvelopes

\* One execution of the pipeline.
Next ==
    \/ \E envelope \in PipelineEnvelopes : Deliver(1, envelope)
    \/ Validate(1)
    \/ Pay(1)
    \/ Compensate(1)
    \/ Tick

Spec == Init /\ [][Next]_vars

\* The validate stage alone, on every input envelope.
NextValidator ==
    \/ \E envelope \in Envelopes : Deliver(1, envelope)
    \/ Validate(1)

SpecValidator == Init /\ [][NextValidator]_vars

\* One execution whose stages may be invoked again on their own output.
NextRecovery ==
    \/ \E envelope \in ParallelEnvelopes : Deliver(1, envelope)
    \/ Validate(1)
    \/ Pay(1)
    \/ Compensate(1)
    \/ Tick
    \/ RedeliverValidate(1)
    \/ RedeliverPayment(1)

SpecRecovery == Init /\ [][NextRecovery]_vars

\* Executions of several deliveries running in parallel.
NextParallel ==
    \/ \E e \in Execs, envelope \in ParallelEnvelopes : Deliver(e, envelope)
    \/ \E e \in Execs : Validate(e)
    \/ \E e \in Execs : Pay(e)
    \/ \E e \in Execs : Compensate(e)
    \/ Tick

SpecParallel == Init /\ [][NextParallel]_vars

\* The shipping address of a request.
Address == [t |-> "dict", street |-> "123 Main St", city |-> "Boston"]

\* The items a caller sends to order entry: as documented without a price,
\* or with one.
EntryItemPool ==
    {Item(Str("prod-1"), Num(2), Absent), Item(Str("p2"), Num(1), Absent),
     Item(Str("prod-1"), Num(2), Num(2999)), Item(Str("p9"), Num(1), Absent),
     Item(Str("p2"), Num(0), Absent), Item(Absent, Num(1), Absent)}

\* Request bodies: with and without items and shipping address.
EntryBodies ==
    {DictOf(<<"items", "shippingAddress">>, <<List(il), a>>) :
        il \in UNION {[1..n -> EntryItemPool] : n \in 1..MaxItems},
        a \in {Absent, Address}}
    \cup {DictOf(<<"items", "shippingAddress">>, <<i, Address>>) :
             i \in {Absent, List(<<>>)}}

\* Orders of price-less items with a claimed total at and around zero.
PricelessEnvelopes ==
    {DictMerge(Envelope(Str("order-123"), Str("user-456"),
                        List(<<Item(Str("prod-1"), Num(2), Absent)>>), Num(t)),
               "status", Str("PENDING")) : t \in {0, 1, 2}}

AfterEntry(e, reply) ==
    IF reply.statusCode = 201
    THEN [exec EXCEPT ![e] = [state |-> "INTAKE", env |-> reply.order,
                              intake |-> reply.order]]
    ELSE [exec EXCEPT ![e].state = "REFUSED"]

\* A request reaches the order-entry handler; the order it queues is the
\* envelope the execution starts on, and a request answered with an error
\* starts none.
QueueOrder(e) ==
    /\ exec[e].state = "IDLE"
    /\ \E body \in EntryBodies :
         \E faults \in SUBSET (1..Len(DictGet(body, "items", List(<<>>)).l)) :
           \E reply \in {OrderEntryHandler(body, "user-456", "uuid-" \o ToString(e),
                                           clock, faults)} :
              /\ exec' = AfterEntry(e, reply)
              /\ last' = [last EXCEPT ![e] =
                    [stage |-> "entry", body |-> body, faults |-> faults,
                     outcome |-> reply]]
    /\ UNCHANGED <<calls, issued, clock>>

\* Order entry followed by the validate stage.
NextEntry ==
    \/ QueueOrder(1)
    \/ \E envelope \in PricelessEnvelopes : Deliver(1, envelope)
    \/ Validate(1)

SpecEntry == Init /\ [][NextEntry]_vars

\* One-item orders whose claimed total lies around the sum of the items.
ToleranceEnvelopes ==
    {Envelope(Str("order-123"), Str("user-456"),
              List(<<Item(Str("p2"), Num(1), Num(2500))>>), Num(2500 + d)) :
        d \in TotalOffsets}

\* One execution whose stages, once they can be invoked, are invoked: a
\* started handler runs to its return or its raise.
NextLive ==
    \/ \E envelope \in PipelineEnvelopes \cup ToleranceEnvelopes : Deliver(1, envelope)
    \/ Validate(1)
    \/ Pay(1)
    \/ Compensate(1)
    \/ Tick

SpecLive ==
    Init /\ [][NextLive]_vars /\ WF_vars(Validate(1)) /\ WF_vars(Pay(1))

(***************************************************************************)
(* Properties                                                              *)
(***************************************************************************)
IsValidated(env) ==
    "validationResult" \in DOMAIN env /\ env["validationResult"].isValid

\* The required fields an envelope lacks: key absent, or value null.
MissingFields(env) ==
    {f \in {"orderId", "userId", "items", "totalAmount"} :
        f \notin DOMAIN env \/ env[f].t = "null"}

\* C1: in the pipeline a payment is attempted, and a paymentResult exists,
\* only for an envelope whose validationResult.isValid is true; an order
\* with a missing required field has a payment call count of zero.
PaymentOnlyAfterValid ==
    \A e \in Execs :
        /\ last[e].stage = "payment" => IsValidated(last[e].event)
        /\ calls[e].payment > 0 => IsValidated(exec[e].env)
        /\ "paymentResult" \in DOMAIN exec[e].env => IsValidated(exec[e].env)
        /\ MissingFields(exec[e].intake) # {} => calls[e].payment = 0

\* C1 witness: an execution was paid after a validation that found the order valid.
PaidAfterValid ==
    \E e \in Execs : exec[e].state = "PAID" /\ calls[e].payment = 1
                     /\ IsValidated(last[e].event)

\* C2: a validationResult or paymentResult already present in the envelope
\* a stage is invoked on has the same value in the envelope the stage returns.
ResultsNeverOverwritten ==
    \A e \in Execs :
        (last[e].stage \in {"validate", "payment"} /\ last[e].outcome.kind = "returned")
        => \A k \in {"validationResult", "paymentResult"} \cap DOMAIN last[e].event :
               last[e].outcome.value[k] = last[e].event[k]

\* C3: a validate stage invoked on an envelope that carries a
\* validationResult makes no catalog lookup and validates nothing anew; a
\* payment stage invoked on an envelope that carries a paymentResult makes no
\* new charge and generates no new transaction id.
ReinvocationDoesNothing ==
    \A e \in Execs :
        /\ (last[e].stage = "validate" /\ "validationResult" \in DOMAIN last[e].event)
           => /\ last[e].outcome.lookups = 0
              /\ last[e].outcome.kind = "returned"
              /\ last[e].outcome.value = last[e].event
        /\ (last[e].stage = "payment" /\ "paymentResult" \in DOMAIN last[e].event)
           => /\ \A i \in 1..Len(issued) : issued[i].exec = e => issued[i].attempt = 1
              /\ last[e].outcome.result.transactionId =
                     last[e].event["paymentResult"].transactionId

\* C4: a validation that found errors, and a declined charge, end as a
\* returned envelope that records the outcome, never as a raised exception.
RejectionsAreReturned ==
    \A e \in Execs :
        /\ (last[e].stage = "validate" /\ last[e].outcome.errors # <<>>)
           => /\ last[e].outcome.kind = "returned"
              /\ ~last[e].outcome.value["validationResult"].isValid
              /\ last[e].outcome.value["validationResult"].errors = last[e].outcome.errors
        /\ (last[e].stage = "payment" /\ last[e].outcome.result.status = "failed")
           => /\ last[e].outcome.kind = "returned"
              /\ last[e].outcome.value["paymentResult"].status = "failed"

\* C5: any two payment attempts have different transaction ids.
TransactionIdsNeverReused ==
    \A i, j \in 1..Len(issued) :
        i # j => issued[i].transactionId # issued[j].transactionId

\* C6: a refund exists only for an envelope whose payment succeeded (so not
\* for a rejected order, a failed or a missing payment), and an execution
\* refunds its transaction at most once.
RefundOnlyAfterSuccess ==
    \A e \in Execs :
        /\ calls[e].refund <= 1
        /\ ("refundResult" \in DOMAIN exec[e].env) = (calls[e].refund = 1)
        /\ exec[e].state \in {"IDLE", "INTAKE", "REJECTED", "VALIDATED", "PAYMENT_FAILED"}
           => calls[e].refund = 0
        /\ calls[e].refund = 1
           => /\ IsValidated(exec[e].env)
              /\ "paymentResult" \in DOMAIN exec[e].env
              /\ exec[e].env["paymentResult"].status = "success"
              /\ exec[e].env["refundResult"].originalTransactionId =
                     exec[e].env["paymentResult"].transactionId

\* C6 witness: a paid order was compensated.
Compensated ==
    \E e \in Execs : exec[e].state = "COMPENSATED" /\ calls[e].refund = 1

\* The items field is missing or a non-empty list: nothing but absence is
\* wrong with it.
ItemsMissingOrFilled(env) ==
    "items" \in MissingFields(env)
    \/ (env["items"].t = "list" /\ Len(env["items"].l) > 0)

\* C7: for an envelope that lacks required fields (and whose items, if
\* there, are a non-empty list) the validator reports one error per missing
\* field and no other, and the order is not valid.
OneErrorPerMissingField ==
    \A e \in Execs :
        (/\ last[e].stage = "validate"
         /\ MissingFields(last[e].event) # {}
         /\ ItemsMissingOrFilled(last[e].event))
        => LET errors == last[e].outcome.errors
           IN  /\ Len(errors) = Cardinality(MissingFields(last[e].event))
               /\ \A f \in MissingFields(last[e].event) :
                      \E i \in 1..Len(errors) :
                          errors[i] = [kind |-> "missing_field", field |-> f]

\* The item at position i of a validated event got as far as the price
\* check with a claimed price: phase 1 passed, the item has a productId and a
\* quantity that parses, its lookup did not fail and found the product.
ReachesPriceCheck(l, i) ==
    LET items == l.event["items"].l
    IN  /\ "productId" \in DOMAIN items[i]
        /\ "quantity" \in DOMAIN items[i] /\ items[i].quantity.t = "num"
        /\ "price" \in DOMAIN items[i] /\ items[i].price.t = "num"
        /\ i \notin l.faults
        /\ items[i].productId.s \in DOMAIN Catalog

CentsApart(a, b) == IF a >= b THEN a - b ELSE b - a

HasError(errors, kind, i) ==
    \E n \in 1..Len(errors) :
        errors[n].kind = kind /\ "item" \in DOMAIN errors[n] /\ errors[n].item = i

\* C8: an item that reaches the price check gets a price-mismatch error if
\* and only if its claimed price and the catalog price are more than 0.01
\* apart.
PriceErrorIffBeyondTolerance ==
    \A e \in Execs :
        (last[e].stage = "validate" /\ MissingFields(last[e].event) = {}
         /\ validate_required_fields(last[e].event) = <<>>)
        => \A i \in Positions(last[e].event) :
               ReachesPriceCheck(last[e], i)
               => (HasError(last[e].outcome.errors, "price_mismatch", i)
                   <=> CentsApart(Catalog[last[e].event["items"].l[i].productId.s].price,
                                  last[e].event["items"].l[i].price.n) > 1)

\* The errors of phases 1 and 2
IsEarlierError(err) == err.kind \notin {"total_mismatch", "total_exception"}

\* C9: when phases 1 and 2 pass, there is a total-mismatch error, and only
\* one, if and only if the sum of price * quantity over the priced items and
\* the claimed totalAmount are more than 0.01 apart.
TotalErrorIffBeyondTolerance ==
    \A e \in Execs :
        (/\ last[e].stage = "validate"
         /\ \A n \in 1..Len(last[e].outcome.errors) :
                ~IsEarlierError(last[e].outcome.errors[n]))
        => LET errors == last[e].outcome.errors
               apart == CentsApart(DecimalSum(last[e].event["items"].l, 1),
                                   last[e].event["totalAmount"].n)
           IN  /\ Len(errors) <= 1
               /\ (Len(errors) = 1 /\ errors[1].kind = "total_mismatch") <=> (apart > 1)

\* C10: the refund id is "ref-" followed by what follows "txn-" in the
\* transaction id, so the transaction id is recovered from it, and
\* originalTransactionId is the transaction id given.
RefundIdKeepsSuffix ==
    \A e \in Execs :
        last[e].stage = "refund"
        => LET tid == last[e].event["paymentResult"].transactionId
               refund == last[e].outcome.value
           IN  /\ SubSeq(tid, 1, 4) = "txn-"
               /\ SubSeq(refund.refundId, 1, 4) = "ref-"
               /\ "txn-" \o SubSeq(refund.refundId, 5, Len(refund.refundId)) = tid
               /\ refund.originalTransactionId = tid

\* C10 witness: a refund was made for a generated transaction id.
RefundMade ==
    \E e \in Execs : last[e].stage = "refund" /\ calls[e].payment = 1

\* An item in line with the catalog: its product is there, its quantity is a
\* positive integer within the stock (where tracked) and its price, if
\* given, is within 0.01 of the catalog's.
ItemConsistent(item) ==
    /\ "productId" \in DOMAIN item /\ item.productId.t = "str"
    /\ item.productId.s \in DOMAIN Catalog
    /\ "quantity" \in DOMAIN item /\ item.quantity.t = "num" /\ item.quantity.n > 0
    /\ "stock" \in DOMAIN Catalog[item.productId.s]
       => item.quantity.n <= Catalog[item.productId.s].stock
    /\ "price" \in DOMAIN item
       => /\ item.price.t = "num"
          /\ CentsApart(Catalog[item.productId.s].price, item.price.n) <= ToleranceCents

\* A valid order: structurally complete, every item in line with the
\* catalog, claimed total within 0.01 of the sum over the priced items.
IsValidOrder(env) ==
    /\ MissingFields(env) = {}
    /\ env["items"].t = "list" /\ Len(env["items"].l) > 0
    /\ \A i \in 1..Len(env["items"].l) : ItemConsistent(env["items"].l[i])
    /\ env["totalAmount"].t = "num"
    /\ CentsApart(DecimalSum(env["items"].l, 1), env["totalAmount"].n) <= ToleranceCents

Settled(e) ==
    /\ exec[e].state \in {"PAID", "PAYMENT_FAILED"}
    /\ calls[e].validate = 1

\* C11: a run on a valid order whose catalog lookups answer eventually
\* reaches PAID or PAYMENT_FAILED with the validator run exactly once; a
\* failed payment leaves no paymentResult and no refund, and is never
\* followed by PAID.
ValidOrderSettles ==
    /\ \A e \in Execs :
          (exec[e].state = "INTAKE" /\ IsValidOrder(exec[e].intake))
          ~> (Settled(e) \/ (last[e].stage = "validate" /\ last[e].faults # {}))
    /\ [](\A e \in Execs :
            exec[e].state = "PAYMENT_FAILED"
            => /\ "paymentResult" \notin DOMAIN exec[e].env
               /\ calls[e].refund = 0 /\ calls[e].validate = 1)

\* The phase an error comes from: 1 structure, 2 items, 3 total.
PhaseOf(err) ==
    IF err.kind \in {"missing_field", "items_not_array", "items_empty"} THEN 1
    ELSE IF err.kind \in {"total_mismatch", "total_exception"} THEN 3
    ELSE 2

\* A required field is missing, or items is not a non-empty list.
StructurallyBad(env) ==
    \/ MissingFields(env) # {}
    \/ env["items"].t # "list"
    \/ Len(env["items"].l) = 0

AllOfPhase(errors, phase) ==
    \A n \in 1..Len(errors) : PhaseOf(errors[n]) = phase

\* C12: a structural error means no catalog lookup and only structural
\* errors in the list; an item error (after a clean structural check) means
\* only item errors in the list, the total is not reconciled; so the errors
\* of a validation all come from one phase.
PhasesShortCircuit ==
    \A e \in Execs :
        last[e].stage = "validate"
        => /\ StructurallyBad(last[e].event)
              => /\ last[e].outcome.lookups = 0
                 /\ last[e].outcome.errors = validate_required_fields(last[e].event)
                 /\ last[e].outcome.errors # <<>>
                 /\ AllOfPhase(last[e].outcome.errors, 1)
           /\ (~StructurallyBad(last[e].event)
               /\ validate_items(last[e].event["items"].l, last[e].faults).errors # <<>>)
              => /\ last[e].outcome.errors =
                        validate_items(last[e].event["items"].l, last[e].faults).errors
                 /\ AllOfPhase(last[e].outcome.errors, 2)
           /\ \E phase \in 1..3 : AllOfPhase(last[e].outcome.errors, phase)

\* C12 witness: an item error was reported for an order whose claimed total
\* is also off by more than 0.01, and no total error came with it.
ItemErrorStoppedTotal ==
    \E e \in Execs :
        /\ last[e].stage = "validate" /\ ~StructurallyBad(last[e].event)
        /\ last[e].outcome.errors # <<>>
        /\ PhaseOf(last[e].outcome.errors[1]) = 2
        /\ last[e].event["totalAmount"].t = "num"
        /\ CentsApart(DecimalSum(last[e].event["items"].l, 1),
                      last[e].event["totalAmount"].n) > 1

\* The item has a productId and a quantity, and the quantity is no positive
\* integer.
BadQuantity(item) ==
    /\ "productId" \in DOMAIN item /\ "quantity" \in DOMAIN item
    /\ (item.quantity.t # "num" \/ item.quantity.n <= 0)

\* The places in the error list of the errors of the item at position i.
ItemErrors(errors, i) ==
    {n \in 1..Len(errors) : "item" \in DOMAIN errors[n] /\ errors[n].item = i}

\* The items a catalog lookup is due for: productId and quantity there, the
\* quantity a positive integer.
LookupDue(event) ==
    {i \in Positions(event) :
        /\ "productId" \in DOMAIN event["items"].l[i]
        /\ "quantity" \in DOMAIN event["items"].l[i]
        /\ ~BadQuantity(event["items"].l[i])}

\* C13: an item whose quantity is no positive integer gets one quantity
\* error and nothing else: no lookup is made for it, and no not-found, stock
\* or price error is added for it.
BadQuantitySkipsItem ==
    \A e \in Execs :
        (last[e].stage = "validate" /\ ~StructurallyBad(last[e].event))
        => /\ \A i \in Positions(last[e].event) :
                 BadQuantity(last[e].event["items"].l[i])
                 => /\ Cardinality(ItemErrors(last[e].outcome.errors, i)) = 1
                    /\ \A n \in ItemErrors(last[e].outcome.errors, i) :
                           last[e].outcome.errors[n].kind \in
                               {"invalid_quantity", "quantity_not_positive"}
           /\ last[e].outcome.lookups = Cardinality(LookupDue(last[e].event))

\* The item at position i was looked up and found, its product's stock is
\* tracked and smaller than the quantity asked for, and it claims a price.
ShortOfStock(l, i) ==
    /\ ReachesPriceCheck(l, i)
    /\ "stock" \in DOMAIN Catalog[l.event["items"].l[i].productId.s]
    /\ l.event["items"].l[i].quantity.n >
           Catalog[l.event["items"].l[i].productId.s].stock

FarFromCatalog(item) ==
    CentsApart(Catalog[item.productId.s].price, item.price.n) > ToleranceCents

\* C14: an item short of stock that claims a price gets the stock error and,
\* if and only if its price is more than 0.01 from the catalog's, a price
\* error as well; nothing else.
StockErrorNotFatal ==
    \A e \in Execs :
        (last[e].stage = "validate" /\ ~StructurallyBad(last[e].event))
        => \A i \in Positions(last[e].event) :
               ShortOfStock(last[e], i)
               => /\ HasError(last[e].outcome.errors, "insufficient_stock", i)
                  /\ HasError(last[e].outcome.errors, "price_mismatch", i)
                         <=> FarFromCatalog(last[e].event["items"].l[i])
                  /\ Cardinality(ItemErrors(last[e].outcome.errors, i)) =
                         IF FarFromCatalog(last[e].event["items"].l[i]) THEN 2 ELSE 1

\* The errors of the item at position i, in the order they were reported.
ErrorsOfItem(errors, i) ==
    LET ForItem(err) == "item" \in DOMAIN err /\ err.item = i
    IN  SelectSeq(errors, ForItem)

\* C15: whatever the other items are, each item gets the errors its own
\* fields, catalog record and lookup fault give it, labelled with its
\* 1-based position; the errors come in item order and the validation
\* completes with the list.
ItemErrorsIsolated ==
    \A e \in Execs :
        (last[e].stage = "validate" /\ ~StructurallyBad(last[e].event))
        => /\ \A i \in Positions(last[e].event) :
                 ErrorsOfItem(last[e].outcome.errors, i) =
                     CheckItem(last[e].event["items"].l[i], i, i \in last[e].faults).errors
           /\ \A n \in 1..Len(last[e].outcome.errors) :
                 /\ "item" \in DOMAIN last[e].outcome.errors[n]
                    => last[e].outcome.errors[n].item \in Positions(last[e].event)
                 /\ PhaseOf(last[e].outcome.errors[n]) = 2
                    => "item" \in DOMAIN last[e].outcome.errors[n]
           /\ \A m, n \in 1..Len(last[e].outcome.errors) :
                 (m < n /\ PhaseOf(last[e].outcome.errors[n]) = 2)
                 => last[e].outcome.errors[m].item <= last[e].outcome.errors[n].item
           /\ last[e].outcome.kind = "raised"
              => /\ last[e].outcome.value.type = "ValueError"
                 /\ last[e].outcome.value.errors = last[e].outcome.errors

\* C15 witness: the lookup of item 1 failed and item 2 was still evaluated
\* and got its own error.
FaultDidNotStopNextItem ==
    \E e \in Execs :
        /\ last[e].stage = "validate" /\ 1 \in last[e].faults
        /\ HasError(last[e].outcome.errors, "lookup_error", 1)
        /\ ErrorsOfItem(last[e].outcome.errors, 2) # <<>>
        /\ 2 \notin last[e].faults

\* The five reasons a charge can fail for.
EnumeratedReasons ==
    {"Insufficient funds", "Card declined", "Payment gateway timeout",
     "Invalid card details", "Bank authorization failed"}

\* failureReason is there exactly when the status is failed, and is then one
\* of the five reasons; amount is the amount the stage was given.
ReasonAndAmount(event, result) ==
    /\ ("failureReason" \in DOMAIN result) <=> (result.status = "failed")
    /\ "failureReason" \in DOMAIN result => result.failureReason \in EnumeratedReasons
    /\ result.amount = event["totalAmount"]
    /\ result.currency = "USD"

\* C16 as stated: the status of every payment result is succeeded or failed,
\* failureReason is present iff failed and is one of the five reasons, and
\* amount echoes the input amount.
PaymentResultSucceededOrFailed ==
    \A e \in Execs :
        last[e].stage = "payment"
        => /\ last[e].outcome.result.status \in {"succeeded", "failed"}
           /\ ReasonAndAmount(last[e].event, last[e].outcome.result)

\* C16 amended: the status of every payment result is success or failed,
\* failureReason is present iff failed and is one of the five reasons, and
\* amount echoes the input amount.
PaymentResultSuccessOrFailed ==
    \A e \in Execs :
        last[e].stage = "payment"
        => /\ last[e].outcome.result.status \in {"success", "failed"}
           /\ ReasonAndAmount(last[e].event, last[e].outcome.result)

\* C16 witness: a charge went through and its result names no failure reason.
ChargeWentThrough ==
    \E e \in Execs :
        /\ last[e].stage = "payment"
        /\ last[e].outcome.result.status = "success"
        /\ "failureReason" \notin DOMAIN last[e].outcome.result
        /\ last[e].outcome.result.amount = last[e].event["totalAmount"]

\* The envelope out has the fields of the envelope in, with the values they
\* had, and the field key besides.
OnlyAdds(in, out, key) ==
    /\ DOMAIN out = DOMAIN in \cup {key}
    /\ \A k \in DOMAIN in \ {key} : out[k] = in[k]

\* C17: the envelope a stage returns has every field of its input with the
\* same value (the order fields, any other field, and for the payment stage
\* the validationResult) and differs from it only by the stage's own result.
StagesOnlyAddTheirResult ==
    \A e \in Execs :
        /\ (last[e].stage = "validate" /\ last[e].outcome.kind = "returned")
           => OnlyAdds(last[e].event, last[e].outcome.value, "validationResult")
        /\ (last[e].stage = "payment" /\ last[e].outcome.kind = "returned")
           => /\ OnlyAdds(last[e].event, last[e].outcome.value, "paymentResult")
              /\ "validationResult" \in DOMAIN last[e].event
              /\ last[e].outcome.value["validationResult"] =
                     last[e].event["validationResult"]
              /\ last[e].outcome.value["paymentResult"] = last[e].outcome.result

\* C17 witness: the payment stage returned an envelope that came in with a
\* field beyond the four order fields and the validationResult.
PaidWithExtraField ==
    \E e \in Execs :
        /\ last[e].stage = "payment" /\ last[e].outcome.kind = "returned"
        /\ "status" \in DOMAIN last[e].event
        /\ last[e].outcome.value["status"] = Str("PENDING")

\* No item of the list carries a price.
Priceless(items) == \A i \in 1..Len(items) : "price" \notin DOMAIN items[i]

\* The sum of catalog price * quantity over the items, in cents.
RECURSIVE CatalogSum(_, _)
CatalogSum(items, idx) ==
    IF idx > Len(items) THEN 0
    ELSE Catalog[items[idx].productId.s].price * items[idx].quantity.n
         + CatalogSum(items, idx + 1)

\* The same sum as the float accumulation total += price * quantity gives it.
RECURSIVE EntryFloatSum(_, _, _)
EntryFloatSum(items, idx, acc) ==
    IF idx > Len(items) THEN acc
    ELSE EntryFloatSum(items, idx + 1,
             FloatAdd(acc, FloatMulInt(FloatOf(Catalog[items[idx].productId.s].price),
                                       items[idx].quantity.n)))

====
